---- MODULE Spec2Model ----
(***************************************************************************)
(* A model of app.py, the campus course reminder (one Streamlit script).   *)
(*                                                                         *)
(* The session state of the script is the state of the model.  Every user  *)
(* interaction and every page refresh runs the whole script once, so each  *)
(* action below is one script run: the widget that changed, then the rest  *)
(* of the script (import block, today's table, week metric, check_remind). *)
(*                                                                         *)
(* Text that the program parses (times, week ranges) is a sequence of      *)
(* one-character strings, and the parsers are computed on it.  Time is a   *)
(* number of minutes since 2025-09-01 00:00, a Monday; a date is a number  *)
(* of days since then.                                                     *)
(***************************************************************************)
EXTENDS Integers, Sequences, FiniteSets, TLC

VARIABLES
    course_data,      \* st.session_state.course_data: None or a table
    remind_minutes,   \* st.session_state.remind_minutes
    adjust_courses,   \* st.session_state.adjust_courses: list of adjustments
    current_remind,   \* st.session_state.current_remind: <<>> (None) or <<row>>
    semester_start,   \* st.session_state.semester_start, as a day number
    uploaded_file,    \* the file_uploader widget: <<>> (empty) or <<sheet>>
    import_msg,       \* what the import block reported in the last run
    form_msg,         \* what adjust_form reported in the last run
    now,              \* datetime.datetime.now() of the last run, in minutes
    today_courses,    \* what get_today_courses() gave the last run (line 239)
    week_metric,      \* the week number the last run displayed (line 291)
    wr_cell,          \* check_week_range called alone: its week_str,
    wr_week,          \*   its current_week,
    wr_out            \*   and its outcome

vars == <<course_data, remind_minutes, adjust_courses, current_remind,
          semester_start, uploaded_file, import_msg, form_msg, now,
          today_courses, week_metric, wr_cell, wr_week, wr_out>>

session == <<course_data, remind_minutes, adjust_courses, current_remind,
             semester_start, uploaded_file, import_msg, form_msg, now,
             today_courses, week_metric>>

wr_vars == <<wr_cell, wr_week, wr_out>>

(***************************************************************************)
(* Bounds of the model.                                                    *)
(***************************************************************************)
MaxRows == 2        \* rows of a course table
MaxAdj == 2         \* length of the adjustment list
MaxStrLen == 5      \* length of a week-range text given to check_week_range
MaxWeek == 3        \* largest current_week given to check_week_range
MaxDay == 14        \* last day of the calendar of the week-number runs

MinutesPerDay == 24 * 60

(***************************************************************************)
(* Text.                                                                   *)
(***************************************************************************)
Digits == <<"0", "1", "2", "3", "4", "5", "6", "7", "8", "9">>

IsDigit(c) == \E d \in 1..10 : Digits[d] = c

DigitVal(c) == (CHOOSE d \in 1..10 : Digits[d] = c) - 1

AllDigits(s) == Len(s) > 0 /\ \A k \in 1..Len(s) : IsDigit(s[k])

RECURSIVE DecVal(_)
DecVal(s) ==
    IF s = <<>> THEN 0
    ELSE DecVal(SubSeq(s, 1, Len(s) - 1)) * 10 + DigitVal(s[Len(s)])

Contains(s, c) == \E k \in 1..Len(s) : s[k] = c

\* str.split(c): the pieces between the occurrences of c, empty pieces kept.
RECURSIVE Split(_, _)
Split(s, c) ==
    IF ~Contains(s, c) THEN <<s>>
    ELSE LET k == CHOOSE i \in 1..Len(s) : s[i] = c /\ \A j \in 1..(i - 1) : s[j] # c
         IN <<SubSeq(s, 1, k - 1)>> \o Split(SubSeq(s, k + 1, Len(s)), c)

\* int(text) succeeds.  Over the characters of the model (digits, "-", ",",
\* ":" and letters) that is a non-empty run of digits: a "-" never reaches
\* int(), since check_week_range splits on it first.
int_ok(s) == AllDigits(s)

(***************************************************************************)
(* A spreadsheet cell as pandas loads it: missing (NaN), text, or a number.*)
(***************************************************************************)
NaN == [t |-> "nan", s |-> <<>>, n |-> 0]
Str(s) == [t |-> "str", s |-> s, n |-> 0]
Num(n) == [t |-> "num", s |-> <<>>, n |-> n]

(***************************************************************************)
(* parse_course_time, lines 26-32: strptime(time_str, "%H:%M") as minutes  *)
(* since midnight; any failure gives datetime.time(0, 0).  %H is one or    *)
(* two digits up to 23, %M one or two digits up to 59, and the whole text  *)
(* must match.                                                             *)
(***************************************************************************)
strptime_ok(time_str) ==
    \E h \in 1..2, m \in 1..2 :
        /\ Len(time_str) = h + 1 + m
        /\ AllDigits(SubSeq(time_str, 1, h))
        /\ time_str[h + 1] = ":"
        /\ AllDigits(SubSeq(time_str, h + 2, h + 1 + m))
        /\ DecVal(SubSeq(time_str, 1, h)) <= 23
        /\ DecVal(SubSeq(time_str, h + 2, h + 1 + m)) <= 59

parse_course_time(time_str) ==
    IF strptime_ok(time_str)
    THEN LET p == Split(time_str, ":") IN DecVal(p[1]) * 60 + DecVal(p[2])
    ELSE 0

(***************************************************************************)
(* get_week_num, lines 34-45.  semester_start always parses: the script    *)
(* writes it with strftime from a date (line 148), so the except branch    *)
(* is never taken.  timedelta.days is the whole days of the difference.    *)
(***************************************************************************)
\* A variant that rounds the elapsed days up; the week-number property has
\* to tell it from get_week_num.
get_week_num_ceil(start_day, today) ==
    LET start_date == start_day * MinutesPerDay
    IN IF today < start_date THEN 0
       ELSE ((today - start_date + MinutesPerDay - 1) \div MinutesPerDay) \div 7 + 1

\* Lines 37-42.
get_week_num(start_day, today) ==
    LET start_date == start_day * MinutesPerDay
    IN IF today < start_date THEN 0
       ELSE ((today - start_date) \div MinutesPerDay) \div 7 + 1

\* datetime.isoweekday(): 1 = Monday; day 0 (2025-09-01) is a Monday.
isoweekday(today) == ((today \div MinutesPerDay) % 7) + 1

(***************************************************************************)
(* check_week_range, lines 47-70.  The outcome is "True", "False", or      *)
(* "TypeError": a cell that is not text and not NaN reaches                *)
(* `"-" in week_str` on line 52, which is outside every try.               *)
(***************************************************************************)
\* A variant whose interval leaves out its last week; the week-range
\* property has to tell it from check_week_range.
check_week_range_open(week_str, current_week) ==
    IF week_str.t = "nan" \/ week_str = Str(<<>>) THEN "True"
    ELSE IF week_str.t = "num" THEN "TypeError"
    ELSE LET s == week_str.s IN
        IF Contains(s, "-") THEN
            LET p == Split(s, "-")
            IN IF /\ Len(p) = 2 /\ int_ok(p[1]) /\ int_ok(p[2])
                  /\ DecVal(p[1]) <= current_week /\ current_week < DecVal(p[2])
               THEN "True" ELSE "False"
        ELSE IF Contains(s, ",") THEN
            LET p == Split(s, ",")
            IN IF /\ \A k \in 1..Len(p) : int_ok(p[k])
                  /\ \E k \in 1..Len(p) : DecVal(p[k]) = current_week
               THEN "True" ELSE "False"
        ELSE IF int_ok(s) /\ DecVal(s) = current_week THEN "True" ELSE "False"

\* Lines 49-70.
check_week_range(week_str, current_week) ==
    IF week_str.t = "nan" \/ week_str = Str(<<>>) THEN "True"
    ELSE IF week_str.t = "num" THEN "TypeError"
    ELSE LET s == week_str.s IN
        IF Contains(s, "-") THEN
            LET p == Split(s, "-")
            IN IF /\ Len(p) = 2 /\ int_ok(p[1]) /\ int_ok(p[2])
                  /\ DecVal(p[1]) <= current_week /\ current_week <= DecVal(p[2])
               THEN "True" ELSE "False"
        ELSE IF Contains(s, ",") THEN
            LET p == Split(s, ",")
            IN IF /\ \A k \in 1..Len(p) : int_ok(p[k])
                  /\ \E k \in 1..Len(p) : DecVal(p[k]) = current_week
               THEN "True" ELSE "False"
        ELSE IF int_ok(s) /\ DecVal(s) = current_week THEN "True" ELSE "False"

(***************************************************************************)
(* Tables.  A course row has the seven columns of the sheet; course_data   *)
(* is None or a table of rows.  An adjustment is the dict of lines         *)
(* 208-218.                                                                *)
(***************************************************************************)
NoData == [is_none |-> TRUE, rows |-> <<>>]
Frame(rows) == [is_none |-> FALSE, rows |-> rows]

Row(wd, st, en, nm, pl, te, wk) ==
    [weekday |-> wd, start |-> st, end_ |-> en, name |-> nm, place |-> pl,
     teacher |-> te, weeks |-> wk]

\* All sequences of length at most n over the set S.
SeqsUpTo(S, n) == UNION {[1..k -> S] : k \in 0..n}

(***************************************************************************)
(* get_today_courses, lines 72-111.                                        *)
(***************************************************************************)
\* Line 84: the lambda runs on every row of the table, wanted today or not.
filter_raises(rows, current_week) ==
    \E i \in 1..Len(rows) : check_week_range(rows[i].weeks, current_week) = "TypeError"

\* Lines 82-85: the rows of today's weekday whose weeks match, in table order.
filter_today(rows, today_weekday, current_week) ==
    LET keep(r) == /\ r.weekday = today_weekday
                   /\ check_week_range(r.weeks, current_week) = "True"
    IN SelectSeq(rows, keep)

\* Line 89.
adjust_applies(adjust, today_weekday, current_week) ==
    /\ adjust.weekday = today_weekday
    /\ check_week_range(Str(adjust.weeks), current_week) = "True"

\* Line 91: the texts are compared as they are, not as parsed times.
mask(row, adjust) == row.start = adjust.orig_start /\ row.name = adjust.orig_name

\* A variant that leaves the place as it was; the replace property has to
\* tell it from replace_row.
replace_row_keep_place(row, adjust) ==
    [row EXCEPT !.name = adjust.new_name, !.teacher = adjust.new_teacher,
                !.start = adjust.new_start, !.end_ = adjust.new_end]

\* Lines 93-95: five columns are overwritten; weekday and weeks stay.
replace_row(row, adjust) ==
    [row EXCEPT !.name = adjust.new_name, !.place = adjust.new_place,
                !.teacher = adjust.new_teacher, !.start = adjust.new_start,
                !.end_ = adjust.new_end]

\* Lines 97-105.
new_course(adjust) ==
    Row(adjust.weekday, adjust.new_start, adjust.new_end, adjust.new_name,
        adjust.new_place, adjust.new_teacher, Str(adjust.weeks))

\* A variant that does not look at the adjustment's weeks; the append
\* property has to tell it from merge_one.
merge_one_ignore_week(today, adjust, today_weekday, current_week) ==
    IF adjust.weekday # today_weekday THEN today
    ELSE IF \E i \in 1..Len(today) : mask(today[i], adjust)
         THEN [i \in 1..Len(today) |->
                  IF mask(today[i], adjust) THEN replace_row(today[i], adjust)
                  ELSE today[i]]
         ELSE Append(today, new_course(adjust))

\* Lines 89-106, one turn of the loop: today_courses after this adjustment.
merge_one(today, adjust, today_weekday, current_week) ==
    IF ~adjust_applies(adjust, today_weekday, current_week) THEN today
    ELSE IF \E i \in 1..Len(today) : mask(today[i], adjust)
         THEN [i \in 1..Len(today) |->
                  IF mask(today[i], adjust) THEN replace_row(today[i], adjust)
                  ELSE today[i]]
         ELSE Append(today, new_course(adjust))

\* Lines 88-106: the loop over adjust_courses, in list order.
RECURSIVE merge_adjust(_, _, _, _)
merge_adjust(today, adjusts, today_weekday, current_week) ==
    IF adjusts = <<>> THEN today
    ELSE merge_adjust(merge_one(today, Head(adjusts), today_weekday, current_week),
                      Tail(adjusts), today_weekday, current_week)

\* Lines 109-110: sort_values on the parsed start time with the default
\* kind, "quicksort", which pandas documents as not stable: the result is
\* some arrangement of the rows ascending by key, and the order of rows
\* with equal keys is not fixed by the call.
sort_values(today) ==
    LET key == [i \in 1..Len(today) |-> parse_course_time(today[i].start)]
    IN IF today = <<>> THEN {<<>>}
       ELSE {[i \in 1..Len(today) |-> today[p[i]]] :
               p \in {q \in Permutations(1..Len(today)) :
                        \A i \in 1..(Len(today) - 1) : key[q[i]] <= key[q[i + 1]]}}

\* The outcomes of get_today_courses(): it raises, or returns a table.
get_today_courses(data, adjusts, start_day, today) ==
    LET today_weekday == isoweekday(today)
        current_week == get_week_num(start_day, today)
    IN IF data.is_none THEN {[raised |-> FALSE, rows |-> <<>>]}
       ELSE IF filter_raises(data.rows, current_week)
            THEN {[raised |-> TRUE, rows |-> <<>>]}
            ELSE {[raised |-> FALSE, rows |-> r] :
                    r \in sort_values(merge_adjust(
                            filter_today(data.rows, today_weekday, current_week),
                            adjusts, today_weekday, current_week))}

(***************************************************************************)
(* check_remind, lines 113-131: the new value of current_remind.           *)
(***************************************************************************)
\* A variant that leaves out a course starting this very minute; the
\* reminder property has to tell it from in_window.
in_window_strict(row, today, minutes) ==
    LET course_start == (today \div MinutesPerDay) * MinutesPerDay
                          + parse_course_time(row.start)
    IN today < course_start /\ course_start <= today + minutes

\* Lines 121-127.
in_window(row, today, minutes) ==
    LET course_start == (today \div MinutesPerDay) * MinutesPerDay
                          + parse_course_time(row.start)
    IN today <= course_start /\ course_start <= today + minutes

RECURSIVE check_remind(_, _, _)
check_remind(rows, today, minutes) ==
    IF rows = <<>> THEN <<>>
    ELSE IF in_window(Head(rows), today, minutes) THEN <<Head(rows)>>
    ELSE check_remind(Tail(rows), today, minutes)

(***************************************************************************)
(* The import block, lines 164-178.  A sheet is the set of its column      *)
(* names and its rows; the weekday of a sheet row is a cell.               *)
(***************************************************************************)
required_cols == {"weekday", "start", "end", "name", "place", "teacher", "weeks"}

\* Line 171: to_numeric(errors="coerce").fillna(0).astype(int).
to_weekday(cell) ==
    IF cell.t = "num" THEN cell.n
    ELSE IF cell.t = "str" /\ AllDigits(cell.s) THEN DecVal(cell.s)
    ELSE 0

coerce_weekdays(rows) ==
    [i \in 1..Len(rows) |-> [rows[i] EXCEPT !.weekday = to_weekday(rows[i].weekday)]]

\* What line 172 is meant to keep (its comment: filter the invalid weekdays).
valid_weekdays(rows) ==
    LET ok(r) == 1 <= r.weekday /\ r.weekday <= 7 IN SelectSeq(rows, ok)

\* Line 172 as Python reads it.  `&` binds tighter than the comparisons, so
\* the index is  df[w] >= (1 & df[w]) <= 7,  a chained comparison, that is
\* (df[w] >= (1 & df[w])) and ((1 & df[w]) <= 7).  `and` asks the first
\* Series for its truth value, and pandas raises ValueError for the truth
\* value of a Series of any length.
weekday_filter(rows) == [raised |-> TRUE, rows |-> <<>>]

\* A variant that imports whatever columns the sheet has; the
\* missing-column property has to tell it from import_block.
import_block_partial(file, data) ==
    IF file = <<>> THEN [data |-> data, msg |-> "none"]
    ELSE [data |-> Frame(coerce_weekdays(file[1].rows)), msg |-> "success"]

\* Lines 164-178: the new course_data and the message shown.
import_block(file, data) ==
    IF file = <<>> THEN [data |-> data, msg |-> "none"]
    ELSE IF required_cols \subseteq file[1].cols
         THEN LET f == weekday_filter(coerce_weekdays(file[1].rows))
              IN IF f.raised THEN [data |-> data, msg |-> "failed"]
                 ELSE [data |-> Frame(f.rows), msg |-> "success"]
         ELSE [data |-> data, msg |-> "missing_cols"]

(***************************************************************************)
(* The inputs the actions draw from.                                       *)
(***************************************************************************)
T0800 == <<"0", "8", ":", "0", "0">>
T0900 == <<"0", "9", ":", "0", "0">>
T0910 == <<"0", "9", ":", "1", "0">>
T0945 == <<"0", "9", ":", "4", "5">>
TBad == <<"9", "h">>

\* Rows of a loaded table: two Monday rows of every week that start
\* together, a Monday row of week 2 only, a Tuesday row, and a row whose
\* week cell the sheet holds as a number.
TodayRows ==
    {Row(1, T0800, T0945, "Math", "A", "Ta", NaN),
     Row(1, T0800, T0945, "Phys", "A", "Ta", NaN),
     Row(1, T0900, T0945, "Phys", "A", "Ta", Str(<<"2">>)),
     Row(2, T0800, T0945, "Math", "A", "Ta", NaN),
     Row(1, T0900, T0945, "Math", "A", "Ta", Num(2))}

\* Rows of a table for the reminder: Monday rows of every week.
RemindRows ==
    {Row(1, st, T0945, nm, "A", "Ta", NaN) :
        nm \in {"Math", "Phys"}, st \in {T0900, T0910, TBad}}

Adjust(on, os, nn, ns) ==
    [weekday |-> 1, weeks |-> <<"1">>, orig_name |-> on, orig_start |-> os,
     new_name |-> nn, new_start |-> ns, new_end |-> T0945, new_place |-> "B",
     new_teacher |-> "Tb"]

\* What the user types into adjust_form: three complete forms (for Monday,
\* week 1; one with a new start time that is no time) and one with the
\* original course name left empty.
AdjustForms ==
    {Adjust("Math", T0800, "Phys", T0900),
     Adjust("Math", T0800, "Math", TBad),
     Adjust("Phys", T0900, "Phys", T0900),
     Adjust("", T0800, "Phys", T0900)}

\* Sheets to upload: with every column or without "place"; the weekday
\* cells are 1, 8 and a text that is no number.
SheetRows ==
    {Row(wd, T0800, T0945, "Math", "A", "Ta", NaN) :
        wd \in {Num(1), Num(8), Str(<<"x">>)}}

Sheets ==
    {[cols |-> c, rows |-> r] :
        c \in {required_cols, required_cols \ {"place"}},
        r \in SeqsUpTo(SheetRows, MaxRows)}

RemindChoices == {5, 10, 15, 20}      \* line 184

SemesterDays == {0, 3}
CalendarStarts == {0, 3, 7, 10}

At(day, hour, minute) == day * MinutesPerDay + hour * 60 + minute

ClockPoints == {At(0, 0, 0), At(0, 8, 55), At(7, 0, 0), At(10, 0, 0)}

\* The first and the last minute of every day of the calendar.
CalendarPoints == {At(d, 0, 0) : d \in 0..MaxDay} \cup {At(d, 23, 59) : d \in 0..MaxDay}

DayPoints == {At(0, 7, 55), At(1, 7, 55), At(7, 7, 55)}

MinutePoints ==
    {At(0, 0, 0), At(0, 8, 40), At(0, 8, 49), At(0, 8, 50), At(0, 8, 55),
     At(0, 9, 0), At(0, 9, 1), At(0, 9, 10)}

WeekChars == {"0", "1", "2", "-", ",", "x"}

\* Week cells for check_week_range: NaN, numbers, and every text over
\* WeekChars up to MaxStrLen characters (the empty text among them).
WeekCells ==
    {NaN} \cup {Num(n) : n \in 1..MaxWeek} \cup {Str(s) : s \in SeqsUpTo(WeekChars, MaxStrLen)}

(***************************************************************************)
(* One script run.  The widgets are read first (the primed session fields  *)
(* below are set by the action), then the script goes on:                  *)
(*   lines 164-178  the import block, on the file the uploader holds;      *)
(*   line 239       today_courses = get_today_courses(); an exception      *)
(*                  ends the run there;                                    *)
(*   line 291       the week metric;                                       *)
(*   line 297       check_remind().                                        *)
(***************************************************************************)
\* A variant that stores today's table back into course_data; the overlay
\* property has to tell it from RestOfScript.
RestOfScript_writeback ==
    /\ \E v \in get_today_courses(course_data, adjust_courses', semester_start', now') :
          /\ today_courses' = v
          /\ course_data' = IF course_data.is_none THEN course_data ELSE Frame(v.rows)
          /\ import_msg' = import_block(uploaded_file', course_data).msg
          /\ IF v.raised
             THEN UNCHANGED <<week_metric, current_remind>>
             ELSE /\ week_metric' = get_week_num(semester_start', now')
                  /\ current_remind' = check_remind(v.rows, now', remind_minutes')
    /\ UNCHANGED wr_vars

\* Lines 164-178, 239, 291, 297.
RestOfScript ==
    /\ LET imp == import_block(uploaded_file', course_data)
       IN course_data' = imp.data /\ import_msg' = imp.msg
    /\ \E v \in get_today_courses(course_data', adjust_courses', semester_start', now') :
          /\ today_courses' = v
          /\ IF v.raised
             THEN UNCHANGED <<week_metric, current_remind>>
             ELSE /\ week_metric' = get_week_num(semester_start', now')
                  /\ current_remind' = check_remind(v.rows, now', remind_minutes')
    /\ UNCHANGED wr_vars

\* Lines 143-148: the date picker.
PickDate(days) ==
    \E d \in days :
        /\ d # semester_start
        /\ semester_start' = d
        /\ form_msg' = "none"
        /\ UNCHANGED <<uploaded_file, remind_minutes, adjust_courses, now>>
        /\ RestOfScript

PickSemesterStart == PickDate(SemesterDays)
PickCalendarStart == PickDate(CalendarStarts)

\* Line 162: a file is put into the uploader; it stays there, and the
\* import block runs on it in this and in every later run.
UploadFile ==
    \E f \in Sheets :
        /\ uploaded_file' = <<f>>
        /\ form_msg' = "none"
        /\ UNCHANGED <<semester_start, remind_minutes, adjust_courses, now>>
        /\ RestOfScript

\* Line 162: the file is taken out of the uploader.
RemoveFile ==
    /\ uploaded_file # <<>>
    /\ uploaded_file' = <<>>
    /\ form_msg' = "none"
    /\ UNCHANGED <<semester_start, remind_minutes, adjust_courses, now>>
    /\ RestOfScript

\* Lines 182-188: the lookahead selectbox.
SelectRemindMinutes ==
    \E m \in RemindChoices :
        /\ m # remind_minutes
        /\ remind_minutes' = m
        /\ form_msg' = "none"
        /\ UNCHANGED <<semester_start, uploaded_file, adjust_courses, now>>
        /\ RestOfScript

\* Lines 204-219: adjust_form is submitted.
form_complete(a) ==
    /\ a.orig_name # "" /\ a.orig_start # <<>> /\ a.new_name # ""
    /\ a.new_start # <<>> /\ a.new_end # <<>>

SubmitAdjustment ==
    \E a \in AdjustForms :
        /\ Len(adjust_courses) < MaxAdj
        /\ IF form_complete(a)
           THEN adjust_courses' = Append(adjust_courses, a) /\ form_msg' = "added"
           ELSE adjust_courses' = adjust_courses /\ form_msg' = "rejected"
        /\ UNCHANGED <<semester_start, uploaded_file, remind_minutes, now>>
        /\ RestOfScript

\* Lines 229-231: the delete button of entry i, then st.rerun().
DeleteAdjustment ==
    \E i \in 1..Len(adjust_courses) :
        /\ adjust_courses' = SubSeq(adjust_courses, 1, i - 1)
                               \o SubSeq(adjust_courses, i + 1, Len(adjust_courses))
        /\ form_msg' = "none"
        /\ UNCHANGED <<semester_start, uploaded_file, remind_minutes, now>>
        /\ RestOfScript

\* Lines 318-320 and 334-336: the refresh button or the 30-second page
\* reload: the script runs again at a later time.
RefreshAt(points) ==
    \E t \in points :
        /\ t > now
        /\ now' = t
        /\ form_msg' = "none"
        /\ UNCHANGED <<semester_start, uploaded_file, remind_minutes, adjust_courses>>
        /\ RestOfScript

Refresh == RefreshAt(ClockPoints)
RefreshNextDay == RefreshAt(DayPoints)
RefreshNextMinute == RefreshAt(MinutePoints)
RefreshCalendar == RefreshAt(CalendarPoints)

\* check_week_range called on the same cell for the next week.
CallCheckWeekRange ==
    /\ wr_week < MaxWeek
    /\ wr_week' = wr_week + 1
    /\ wr_out' = check_week_range(wr_cell, wr_week')
    /\ UNCHANGED <<wr_cell, session>>

(***************************************************************************)
(* Initial states: the session after the first run of the script at time   *)
(* t (lines 14-23, then the script with no widget touched), with           *)
(* course_data as given.                                                   *)
(***************************************************************************)
InitWith(data, t) ==
    /\ course_data = data
    /\ remind_minutes = 10
    /\ adjust_courses = <<>>
    /\ semester_start = 0
    /\ uploaded_file = <<>>
    /\ import_msg = "none"
    /\ form_msg = "none"
    /\ now = t
    /\ \E v \in get_today_courses(data, <<>>, 0, t) :
          /\ today_courses = v
          /\ week_metric = IF v.raised THEN 0 ELSE get_week_num(0, t)
          /\ current_remind = IF v.raised THEN <<>> ELSE check_remind(v.rows, t, 10)

\* check_week_range called on cell c for week 0.
InitCall(c) ==
    /\ wr_cell = c
    /\ wr_week = 0
    /\ wr_out = check_week_range(c, 0)

\* The program: course_data starts as None (line 15).
Init == InitWith(NoData, At(0, 0, 0)) /\ InitCall(NaN)

Next ==
    \/ PickSemesterStart
    \/ UploadFile
    \/ RemoveFile
    \/ SelectRemindMinutes
    \/ SubmitAdjustment
    \/ DeleteAdjustment
    \/ Refresh

Spec == Init /\ [][Next]_vars

\* The import block and the adjustment list, without the clock.
NextImport == UploadFile \/ RemoveFile \/ SubmitAdjustment \/ DeleteAdjustment

SpecImport == Init /\ [][NextImport]_vars

\* The week number over a calendar of MaxDay days.
NextClock == PickCalendarStart \/ RefreshCalendar

SpecClock == Init /\ [][NextClock]_vars

\* get_today_courses and the adjustment list, on every table of up to
\* MaxRows rows as course_data, over three days (Monday and Tuesday of week
\* 1, Monday of week 2).
InitToday ==
    \E rows \in SeqsUpTo(TodayRows, MaxRows) :
        InitWith(Frame(rows), At(0, 7, 55)) /\ InitCall(NaN)

NextToday == SubmitAdjustment \/ DeleteAdjustment \/ RefreshNextDay

SpecToday == InitToday /\ [][NextToday]_vars

\* check_remind on every table of up to MaxRows Monday rows, over the
\* minutes of one Monday and every lookahead.
InitRemind ==
    \E rows \in SeqsUpTo(RemindRows, MaxRows) :
        InitWith(Frame(rows), At(0, 0, 0)) /\ InitCall(NaN)

NextRemind == SelectRemindMinutes \/ RefreshNextMinute

SpecRemind == InitRemind /\ [][NextRemind]_vars

\* check_week_range alone, on every cell, week after week.
InitWeek == \E c \in WeekCells : InitWith(NoData, At(0, 0, 0)) /\ InitCall(c)

NextWeek == CallCheckWeekRange

SpecWeek == InitWeek /\ [][NextWeek]_vars

(***************************************************************************)
(* Properties.                                                             *)
(***************************************************************************)
Returned == ~course_data.is_none /\ ~today_courses.raised

View == today_courses.rows

Selected == filter_today(course_data.rows, isoweekday(now),
                         get_week_num(semester_start, now))

Applies(a) == adjust_applies(a, isoweekday(now), get_week_num(semester_start, now))

Applying == {j \in 1..Len(adjust_courses) : Applies(adjust_courses[j])}

RowKey(r) == <<r.start, r.name>>
OrigKey(a) == <<a.orig_start, a.orig_name>>
NewKey(a) == <<a.new_start, a.new_name>>

HasSelectedRow(a) == \E k \in 1..Len(Selected) : RowKey(Selected[k]) = OrigKey(a)

Count(seq, x) == Cardinality({p \in 1..Len(seq) : seq[p] = x})

Ascending(seq) ==
    LET key == [p \in 1..Len(seq) |-> parse_course_time(seq[p].start)]
    IN \A p, q \in 1..Len(seq) : p < q => key[p] <= key[q]

\* No other adjustment that applies today names, as its original or its new
\* (start time, course name), the original or the new one of adjustment i.
KeysApart(i) ==
    \A j \in Applying \ {i} :
        {OrigKey(adjust_courses[j]), NewKey(adjust_courses[j])}
          \cap {OrigKey(adjust_courses[i]), NewKey(adjust_courses[i])} = {}

\* ---- C1 ----------------------------------------------------------------
\* The start time of row r, taken on today's date, lies between now and
\* now + remind_minutes.
InWindow(r) ==
    LET t == (now \div MinutesPerDay) * MinutesPerDay + parse_course_time(r.start)
    IN now <= t /\ t <= now + remind_minutes

\* C1: after a run, current_remind is the first row of today's table, in
\* the order of the table, whose start time t (today's date with the parsed
\* start time) has now <= t <= now + remind_minutes, and None when no row
\* has; with a lookahead of 10 a 09:00 row heading the table is returned at
\* 08:55, and no 09:00 row is returned at 08:49.
C1_FirstInWindow ==
    Returned =>
        /\ (\A p \in 1..Len(View) : ~InWindow(View[p])) => current_remind = <<>>
        /\ \A p \in 1..Len(View) :
              (InWindow(View[p]) /\ \A q \in 1..(p - 1) : ~InWindow(View[q]))
                  => current_remind = <<View[p]>>
        /\ (remind_minutes = 10 /\ now = At(0, 8, 55) /\ View # <<>>
              /\ View[1].start = T0900) => current_remind = <<View[1]>>
        /\ (remind_minutes = 10 /\ now = At(0, 8, 49) /\ current_remind # <<>>)
              => current_remind[1].start # T0900

C1_Witness ==
    /\ Returned /\ Len(View) = 2
    /\ remind_minutes = 10 /\ now = At(0, 8, 55)
    /\ current_remind # <<>> /\ current_remind[1].start = T0900
    /\ View[1].start = TBad

\* ---- C2 ----------------------------------------------------------------
\* C2: while the uploader holds a sheet with all seven columns, the import
\* has succeeded and course_data is exactly the sheet's rows whose weekday,
\* made a number (what is no number counting as 0), lies in 1..7.
C2_ImportKeepsValidWeekdays ==
    (uploaded_file # <<>> /\ required_cols \subseteq uploaded_file[1].cols) =>
        /\ import_msg = "success"
        /\ course_data = Frame(valid_weekdays(coerce_weekdays(uploaded_file[1].rows)))

\* ---- C3 ----------------------------------------------------------------
\* C3: a run whose uploader holds a sheet that lacks a required column
\* reports the missing columns and leaves course_data as it was; the run
\* that received the sheet leaves the adjustment list as it was too.
C3_RejectMissingColumns ==
    [][(uploaded_file' # <<>> /\ ~(required_cols \subseteq uploaded_file'[1].cols)) =>
          /\ import_msg' = "missing_cols"
          /\ course_data' = course_data
          /\ (uploaded_file' # uploaded_file => adjust_courses' = adjust_courses)]_vars

C3_Witness ==
    /\ uploaded_file # <<>>
    /\ ~(required_cols \subseteq uploaded_file[1].cols)
    /\ Len(uploaded_file[1].rows) > 0
    /\ import_msg = "missing_cols"
    /\ form_msg = "none"
    /\ adjust_courses # <<>>

\* ---- C4 ----------------------------------------------------------------
\* What C4 says of adjustment i: every selected row with its original
\* (start time, course name) appears with the five new fields, weekday and
\* weeks kept; no row with the original (start time, course name) is left
\* (unless the new ones are the same); the adjustment adds no row; and the
\* table is ascending by parsed start time, so the new start time places
\* the row.
ReplacedRow(r, a) ==
    Row(r.weekday, a.new_start, a.new_end, a.new_name, a.new_place, a.new_teacher,
        r.weeks)

ReplacesInPlace(i) ==
    LET a == adjust_courses[i] IN
    /\ \A k \in 1..Len(Selected) :
          RowKey(Selected[k]) = OrigKey(a)
              => \E p \in 1..Len(View) : View[p] = ReplacedRow(Selected[k], a)
    /\ NewKey(a) # OrigKey(a) => \A p \in 1..Len(View) : RowKey(View[p]) # OrigKey(a)
    /\ Len(View) <= Len(Selected) + Cardinality(Applying) - 1
    /\ Ascending(View)

\* C4 as claimed: every adjustment that applies today and whose original
\* (start time, course name) is that of a selected row replaces in place.
C4_AsClaimed ==
    Returned =>
        \A i \in Applying : HasSelectedRow(adjust_courses[i]) => ReplacesInPlace(i)

\* C4 as amended: an adjustment that applies today, whose original (start
\* time, course name) is that of a selected row, and whose original and new
\* (start time, course name) are named by no other adjustment that applies
\* today, replaces in place: the row shows the five new fields, the
\* original is gone, no row is added, and the table is ascending by the
\* new start time.
C4_ReplaceInPlace ==
    Returned =>
        \A i \in Applying :
            (HasSelectedRow(adjust_courses[i]) /\ KeysApart(i)) => ReplacesInPlace(i)

C4_Witness ==
    /\ Returned
    /\ Cardinality(Applying) = 2
    /\ Len(Selected) = 2
    /\ \E i \in Applying :
          /\ HasSelectedRow(adjust_courses[i]) /\ KeysApart(i)
          /\ NewKey(adjust_courses[i]) # OrigKey(adjust_courses[i])
          /\ View[1].name = adjust_courses[i].new_name
          /\ View[1].place = "B"

\* ---- C5 ----------------------------------------------------------------
\* What C5 says of adjustment i: the synthetic row built from it is in the
\* table once more than among the selected rows (once for each applying
\* adjustment without a selected row that builds the same row); every
\* selected row that no other applying adjustment names is still there; and
\* the table is ascending by parsed start time.
SyntheticRow(a) ==
    Row(a.weekday, a.new_start, a.new_end, a.new_name, a.new_place, a.new_teacher,
        Str(a.weeks))

AppendsOne(i) ==
    LET a == adjust_courses[i] IN
    /\ Count(View, SyntheticRow(a)) =
          Count(Selected, SyntheticRow(a))
            + Cardinality({j \in Applying :
                             /\ ~HasSelectedRow(adjust_courses[j])
                             /\ SyntheticRow(adjust_courses[j]) = SyntheticRow(a)})
    /\ \A k \in 1..Len(Selected) :
          (\A j \in Applying \ {i} : OrigKey(adjust_courses[j]) # RowKey(Selected[k]))
              => Count(View, Selected[k]) >= Count(Selected, Selected[k])
    /\ Len(View) >= Len(Selected) + 1
    /\ Ascending(View)

\* Adjustments that do not apply today add nothing.
OthersAddNothing ==
    /\ Len(View) <= Len(Selected) + Cardinality(Applying)
    /\ Applying = {} =>
          /\ Len(View) = Len(Selected)
          /\ \A k \in 1..Len(Selected) : Count(View, Selected[k]) = Count(Selected, Selected[k])

\* C5 as claimed: every adjustment that applies today and whose original
\* (start time, course name) is that of no selected row adds one synthetic
\* row; an adjustment that does not apply adds nothing.
C5_AsClaimed ==
    Returned =>
        /\ \A i \in Applying : ~HasSelectedRow(adjust_courses[i]) => AppendsOne(i)
        /\ OthersAddNothing

\* C5 as amended: an adjustment that applies today, whose original (start
\* time, course name) is that of no selected row, and whose original and
\* new (start time, course name) are named by no other adjustment that
\* applies today, adds one synthetic row, the selected rows it leaves
\* alone stay, and the table is ascending by parsed start time; an
\* adjustment that does not apply adds nothing.
C5_AppendSynthetic ==
    Returned =>
        /\ \A i \in Applying :
              (~HasSelectedRow(adjust_courses[i]) /\ KeysApart(i)) => AppendsOne(i)
        /\ OthersAddNothing

C5_Witness ==
    /\ Returned
    /\ Cardinality(Applying) = 2
    /\ Len(Selected) = 2
    /\ Len(View) = 3
    /\ \E i \in Applying :
          /\ ~HasSelectedRow(adjust_courses[i]) /\ KeysApart(i)
          /\ View[3] = SyntheticRow(adjust_courses[i])

\* ---- C6 ----------------------------------------------------------------
\* Text s is an interval "A-B" with its "-" at position k; A and B are
\* runs of digits.
IsInterval(s, k) ==
    /\ k \in 1..Len(s) /\ s[k] = "-"
    /\ AllDigits(SubSeq(s, 1, k - 1)) /\ AllDigits(SubSeq(s, k + 1, Len(s)))

\* Text s is a comma list of runs of digits.
IsList(s) ==
    /\ Contains(s, ",")
    /\ \A k \in 1..Len(s) : IsDigit(s[k]) \/ s[k] = ","
    /\ s[1] # "," /\ s[Len(s)] # ","
    /\ \A k \in 1..(Len(s) - 1) : ~(s[k] = "," /\ s[k + 1] = ",")

\* The numbers of a list: the runs of digits between the commas.
Listed(s) ==
    {DecVal(SubSeq(s, i, j)) : <<i, j>> \in
        {x \in (1..Len(s)) \X (1..Len(s)) :
            /\ x[1] <= x[2]
            /\ \A k \in x[1]..x[2] : IsDigit(s[k])
            /\ (x[1] = 1 \/ s[x[1] - 1] = ",")
            /\ (x[2] = Len(s) \/ s[x[2] + 1] = ",")}}

Says(b) == wr_out = IF b THEN "True" ELSE "False"

\* C6: a missing or empty week range matches every week; "A-B" matches
\* exactly the weeks from A to B (none when A > B); a comma list of numbers
\* matches exactly the listed weeks; a single number matches exactly that
\* week.
C6_WellFormedRanges ==
    /\ (wr_cell = NaN \/ wr_cell = Str(<<>>)) => Says(TRUE)
    /\ wr_cell.t = "str" =>
          /\ \A k \in 1..Len(wr_cell.s) :
                IsInterval(wr_cell.s, k) =>
                    Says(/\ DecVal(SubSeq(wr_cell.s, 1, k - 1)) <= wr_week
                         /\ wr_week <= DecVal(SubSeq(wr_cell.s, k + 1, Len(wr_cell.s))))
          /\ IsList(wr_cell.s) => Says(wr_week \in Listed(wr_cell.s))
          /\ AllDigits(wr_cell.s) => Says(wr_week = DecVal(wr_cell.s))

C6_Witness ==
    /\ wr_cell = Str(<<"1", "-", "2">>)
    /\ wr_week = 2
    /\ wr_out = "True"

\* ---- C7 ----------------------------------------------------------------
\* A week cell that is not empty and is no interval, no list and no
\* single number; a cell loaded as a number is one.
Malformed(c) ==
    \/ c.t = "num"
    \/ /\ c.t = "str" /\ c.s # <<>>
       /\ ~AllDigits(c.s) /\ ~IsList(c.s)
       /\ \A k \in 1..Len(c.s) : ~IsInterval(c.s, k)

\* C7: check_week_range gives False, and does not raise, for a week cell
\* that is not empty and is no interval, no list and no single number (a
\* cell loaded as a number among them).
C7_MalformedFailsClosed == Malformed(wr_cell) => wr_out = "False"

\* ---- C8 ----------------------------------------------------------------
\* C8: the week number displayed is 0 before the semester start; from the
\* start on it is the w >= 1 with start + 7(w-1) days <= now < start + 7w
\* days, so 1 during the first seven days; and it is not larger than the
\* week number of any later time.
C8_WeekNumber ==
    LET start == semester_start * MinutesPerDay
        week == 7 * MinutesPerDay
    IN /\ now < start => week_metric = 0
       /\ now >= start =>
             /\ week_metric >= 1
             /\ start + (week_metric - 1) * week <= now
             /\ now < start + week_metric * week
       /\ (start <= now /\ now < start + week) => week_metric = 1
       /\ week_metric >= 0
       /\ \A t \in CalendarPoints :
             t >= now => get_week_num(semester_start, t) >= week_metric

C8_Witness ==
    /\ semester_start = 3
    /\ now = At(9, 23, 59)
    /\ week_metric = 1

\* ---- C9 ----------------------------------------------------------------
\* The rows as the loop of lines 88-106 leaves them, before the sort.
Merged ==
    merge_adjust(Selected, adjust_courses, isoweekday(now),
                 get_week_num(semester_start, now))

\* C9: the table returned is the stable sort, by parsed start time, of the
\* merged rows: ascending, and rows with equal start times in the order
\* the merge left them in.
C9_StableAscending ==
    Returned =>
        /\ Ascending(View)
        /\ Len(View) = Len(Merged)
        /\ \E p \in Permutations(1..Len(Merged)) :
              /\ \A i \in 1..Len(Merged) : View[i] = Merged[p[i]]
              /\ \A i, j \in 1..Len(Merged) :
                    (i < j /\ parse_course_time(View[i].start)
                                = parse_course_time(View[j].start)) => p[i] < p[j]

\* ---- C10 ---------------------------------------------------------------
\* C10: no run changes course_data unless its import succeeded; a run that
\* only recomputes (a refresh at a later time) leaves the adjustment list
\* as it was.
C10_OverlayOnly ==
    [][/\ course_data' # course_data => import_msg' = "success"
       /\ now' # now => adjust_courses' = adjust_courses]_vars

C10_Witness ==
    /\ Returned
    /\ Len(adjust_courses) = 2
    /\ now = At(0, 7, 55)
    /\ View # Selected
    /\ \E p \in 1..Len(View) : View[p].place = "B"
    /\ \A k \in 1..Len(course_data.rows) : course_data.rows[k].place = "A"

====
